---- MODULE Spec2Model ----
(***************************************************************************)
(* NumPyRingBuffer (src/NumPyRingBuffer.py): a fixed-capacity ring buffer  *)
(* over a numpy array of length 2*max_size.  Every appended value is       *)
(* stored twice, at slot i%max_size and at that slot + max_size, so that   *)
(* the window starting at _index%max_size is a contiguous physical range.  *)
(*                                                                         *)
(* Conventions of the model                                                *)
(*  - _npa is a function on 0..2*max_size-1 (numpy arrays are 0-based);    *)
(*    arrays returned to the caller are sequences (1-based).               *)
(*  - numpy.empty leaves the store uninitialised: Init draws every slot    *)
(*    from Uninitialised (the extremes of Values).                         *)
(*  - None is the empty sequence and an integer n is <<n>> wherever the    *)
(*    source has an optional integer (slice.start/stop/step).              *)
(*  - last records the most recent call: its name and the exception it    *)
(*    raised ("" when none).  What a call returns is a function of the     *)
(*    state, given by the operator of the same name.                       *)
(*  - count, hist, intact and touched are history variables; no operation  *)
(*    of the buffer reads them.                                            *)
(*  - held is an array a caller got from __getitem__ and kept: the values  *)
(*    it had when returned and, when it is a numpy view, the positions of  *)
(*    _npa it shares.                                                      *)
(***************************************************************************)
EXTENDS Integers, Sequences, FiniteSets, TLC

\* ---------------------------------------------------------------- bounds
MaxCap == 2          \* largest max_size passed to the constructor
MaxVal == 1          \* element values are 0..MaxVal
MaxIndex == 3        \* appends stop once _index reaches this value

Values == 0 .. MaxVal
\* what numpy.empty may leave in a slot: any of two distinct element values
Uninitialised == {0, MaxVal}
Capacities == (-1) .. MaxCap

VARIABLES alive, max_size, _npa, _index, last, count, hist, intact, touched,
          held

vars == <<alive, max_size, _npa, _index, last, count, hist, intact, touched,
          held>>

\* ------------------------------------------------------ python primitives
None == <<>>
Some(n) == <<n>>

Min2(a, b) == IF a <= b THEN a ELSE b

\* slice.indices(n): the sequence of positions a slice (start, stop, step)
\* selects in an array of length n; step is a non-zero integer here.
SliceStart(start, step, n) ==
    IF start = None THEN (IF step > 0 THEN 0 ELSE n - 1)
    ELSE LET s == start[1] IN
         IF s < 0 THEN (IF s + n < 0 THEN (IF step > 0 THEN 0 ELSE -1) ELSE s + n)
         ELSE IF s >= n THEN (IF step > 0 THEN n ELSE n - 1)
         ELSE s

SliceStop(stop, step, n) ==
    IF stop = None THEN (IF step > 0 THEN n ELSE -1)
    ELSE LET s == stop[1] IN
         IF s < 0 THEN (IF s + n < 0 THEN (IF step > 0 THEN 0 ELSE -1) ELSE s + n)
         ELSE IF s >= n THEN (IF step > 0 THEN n ELSE n - 1)
         ELSE s

SliceIndices(start, stop, step, n) ==
    LET st == IF step = None THEN 1 ELSE step[1]
        a  == SliceStart(start, st, n)
        b  == SliceStop(stop, st, n)
        cnt == IF st > 0
               THEN (IF b > a THEN (b - a + st - 1) \div st ELSE 0)
               ELSE (IF a > b THEN (a - b + (-st) - 1) \div (-st) ELSE 0)
    IN [k \in 1 .. cnt |-> a + (k - 1) * st]

StepIsZero(step) == step # None /\ step[1] = 0

\* arr[lo:hi] of a 0-based array, as a sequence
View(arr, lo, hi) == [k \in 1 .. (hi - lo) |-> arr[lo + k - 1]]

Range(s) == {s[k] : k \in 1 .. Len(s)}

\* ------------------------------------------------------------- selectors
IntSel(i) == [kind |-> "int", i |-> i]
SliceSel(start, stop, step) ==
    [kind |-> "slice", start |-> start, stop |-> stop, step |-> step]
ListSel(items) == [kind |-> "list", items |-> items]
OtherSel == [kind |-> "other"]      \* e.g. a float or a string

Call(op, err) == [op |-> op, err |-> err]

\* no array is held by the caller
NoHeld == [sel |-> OtherSel, ret |-> <<>>, view |-> FALSE, pos |-> <<>>]

\* ------------------------------------------------------ element arguments
\* What a caller may pass to append: a number, a string that spells a
\* number (numpy parses it on assignment) or an object that the float32
\* store cannot convert (e.g. the string 'abc'), for which the assignment
\* raises ValueError.
Num(n) == [type |-> "num", v |-> n]
NumStr(n) == [type |-> "str", v |-> n]
NotNumeric == [type |-> "object"]
Elements == {Num(n) : n \in Values} \cup {NumStr(n) : n \in Values} \cup {NotNumeric}

\* self._npa[...] = element converts element to the dtype of the array
Convert(element) ==
    IF element.type \in {"num", "str"}
    THEN [ok |-> TRUE, v |-> element.v]
    ELSE [ok |-> FALSE, v |-> 0]

\* -------------------------------------------------------------- __init__
\* numpy.empty(max_size*2) raises ValueError for a negative size (and no
\* object is created); for 0 it returns an empty array.
__init__(m) ==
    IF m < 0
    THEN /\ alive = FALSE
         /\ max_size = 0
         /\ _npa = <<>>
         /\ _index = 0
         /\ last = Call("__init__", "ValueError")
    ELSE /\ alive = TRUE
         /\ max_size = m
         /\ _npa \in [0 .. 2 * m - 1 -> Uninitialised]
         /\ _index = 0
         /\ last = Call("__init__", "")

Init ==
    /\ \E m \in Capacities : __init__(m)
    /\ count = 0
    /\ hist = <<>>
    /\ intact = TRUE
    /\ touched = {}
    /\ held = NoHeld

\* ------------------------------------------------------------ observers
\* variant: full only once an element has been evicted
isFull_strict == _index > max_size

isFull == _index >= max_size

\* variant: the length is the cursor, not capped at max_size
len_uncapped == _index

__len__ == IF isFull THEN max_size ELSE _index

\* variant: the first half of the store, in physical order
getElements_physical == View(_npa, 0, max_size)

\* getElements(): _npa[_index%max_size : (_index%max_size)+max_size]
getElements ==
    LET b == _index % max_size
    IN View(_npa, b, b + max_size)

\* variant: the untrimmed getElements() view also before the buffer is full
getattrArray_untrimmed == getElements

\* the array __getattr__ forwards the attribute lookup to
getattrArray ==
    IF _index < max_size
    THEN View(_npa, 0, _index)
    ELSE LET b == _index % max_size IN View(_npa, b, b + max_size)


\* ------------------------------------------------------------ reductions
RECURSIVE SumTo(_, _)
SumTo(s, k) == IF k = 0 THEN 0 ELSE s[k] + SumTo(s, k - 1)
Sum(s) == SumTo(s, Len(s))
SumSq(s) == SumTo([k \in 1 .. Len(s) |-> s[k] * s[k]], Len(s))
MinOf(s) == CHOOSE x \in Range(s) : \A y \in Range(s) : x <= y
MaxOf(s) == CHOOSE x \in Range(s) : \A y \in Range(s) : x >= y

Reductions == {"min", "max", "sum", "mean", "std"}

\* The numpy method named a applied to array s.  mean is the exact fraction
\* <<numerator, denominator>>; std is reported by its square, the variance,
\* as the exact fraction <<n*sum(x^2) - sum(x)^2, n^2>>; <<0, 0>> is nan.
\* min and max of an empty array raise ValueError.
Reduce(a, s) ==
    LET n == Len(s) IN
    CASE a = "min"  -> IF n = 0 THEN [ret |-> <<>>, err |-> "ValueError"]
                       ELSE [ret |-> <<MinOf(s)>>, err |-> ""]
      [] a = "max"  -> IF n = 0 THEN [ret |-> <<>>, err |-> "ValueError"]
                       ELSE [ret |-> <<MaxOf(s)>>, err |-> ""]
      [] a = "sum"  -> [ret |-> <<Sum(s)>>, err |-> ""]
      [] a = "mean" -> [ret |-> <<Sum(s), n>>, err |-> ""]
      [] a = "std"  -> [ret |-> <<n * SumSq(s) - Sum(s) * Sum(s), n * n>>, err |-> ""]

\* __getattr__(a)(): _index % max_size raises ZeroDivisionError when
\* max_size is 0 (0 < 0 is false, so the second return is taken).
__getattr__(a) ==
    IF max_size = 0 THEN [ret |-> <<>>, err |-> "ZeroDivisionError"]
    ELSE Reduce(a, getattrArray)

\* ----------------------------------------------------------- __getitem__
\* current_array[i] for an integer i: numpy counts a negative i from the
\* end and raises IndexError outside -n..n-1.
ReadInt(V, i) ==
    LET n == Len(V) IN
    IF i >= 0 /\ i < n THEN [ret |-> <<V[i + 1]>>, err |-> ""]
    ELSE IF i < 0 /\ i >= -n THEN [ret |-> <<V[i + n + 1]>>, err |-> ""]
    ELSE [ret |-> <<>>, err |-> "IndexError"]

\* current_array[slice]
ReadSlice(V, sl) ==
    IF StepIsZero(sl.step) THEN [ret |-> <<>>, err |-> "ValueError"]
    ELSE LET ix == SliceIndices(sl.start, sl.stop, sl.step, Len(V))
         IN [ret |-> [k \in 1 .. Len(ix) |-> V[ix[k] + 1]], err |-> ""]

\* the loop over a list or tuple of selectors; items that are neither an
\* integer nor a slice are passed over.
RECURSIVE ReadItems(_, _, _, _)
ReadItems(V, items, k, rarray) ==
    IF k > Len(items) THEN [ret |-> rarray, err |-> ""]
    ELSE LET it == items[k] IN
         IF it.kind = "int"
         THEN LET r == ReadInt(V, it.i) IN
              IF r.err # "" THEN [ret |-> <<>>, err |-> r.err]
              ELSE ReadItems(V, items, k + 1, rarray \o r.ret)
         ELSE IF it.kind = "slice"
         THEN LET r == ReadSlice(V, it) IN
              IF r.err # "" THEN [ret |-> <<>>, err |-> r.err]
              ELSE ReadItems(V, items, k + 1, rarray \o r.ret)
         ELSE ReadItems(V, items, k + 1, rarray)

__getitem__(indexs) ==
    IF max_size = 0 THEN [ret |-> <<>>, err |-> "ZeroDivisionError"]
    ELSE LET current_array == getElements IN
         CASE indexs.kind = "list"  -> ReadItems(current_array, indexs.items, 1, <<>>)
           [] indexs.kind = "int"   -> ReadInt(current_array, indexs.i)
           [] indexs.kind = "slice" -> ReadSlice(current_array, indexs)
           [] OTHER                 -> [ret |-> <<>>, err |-> "TypeError"]

\* variant: the list branch returns a slice of current_array, not a new array
getitemView_shared(indexs) ==
    IF max_size = 0 THEN [view |-> FALSE, pos |-> <<>>]
    ELSE LET b == _index % max_size
             n == Len(__getitem__(indexs).ret) IN
         IF indexs.kind \in {"slice", "list"} /\ __getitem__(indexs).err = ""
         THEN [view |-> TRUE, pos |-> [k \in 1 .. n |-> b + k - 1]]
         ELSE [view |-> FALSE, pos |-> <<>>]

\* What the object returned by __getitem__ shares with _npa: line 160
\* returns current_array[indexs], which for a slice is a numpy view of
\* _npa (pos are the positions it spans) and for an integer a scalar;
\* line 158 returns numpy.asarray(rarray) of a python list, a new array.
getitemView(indexs) ==
    IF max_size = 0 THEN [view |-> FALSE, pos |-> <<>>]
    ELSE LET b == _index % max_size IN
         IF indexs.kind = "slice" /\ ~StepIsZero(indexs.step)
         THEN LET ix == SliceIndices(indexs.start, indexs.stop, indexs.step, max_size)
              IN [view |-> TRUE, pos |-> [k \in 1 .. Len(ix) |-> b + ix[k]]]
         ELSE [view |-> FALSE, pos |-> <<>>]

\* ----------------------------------------------------------- __setitem__
\* arr[ix] = v for every position in the set ix
Store(arr, ix, v) == [p \in DOMAIN arr |-> IF p \in ix THEN v ELSE arr[p]]

\* variant: the index is taken as a physical slot, not relative to the cursor
WriteInt_physical(npa, idx, v) ==
    LET lo == idx % max_size
        hi == (idx % max_size) + max_size
    IN [npa |-> Store(npa, {lo, hi}, v), stored |-> {lo, hi}, err |-> ""]

\* variant: the mirrored store (line 134) is missing
WriteInt_nomirror(npa, idx, v) ==
    LET i == idx + _index
        lo == i % max_size
    IN [npa |-> Store(npa, {lo}, v), stored |-> {lo}, err |-> ""]

\* the two stores of the integer branch (lines 117-119 and 132-134)
WriteInt(npa, idx, v) ==
    LET i == idx + _index
        lo == i % max_size
        hi == (i % max_size) + max_size
    IN [npa |-> Store(npa, {lo, hi}, v), stored |-> {lo, hi}, err |-> ""]

\* the two slice stores of the slice branch (lines 136-145)
WriteSlice(npa, sl, v) ==
    LET istart == IF sl.start = None THEN 0 ELSE sl.start[1]
        istop  == IF sl.stop = None THEN 0 ELSE sl.stop[1]
        start  == istart + _index
        stop   == istop + _index
        n      == 2 * max_size
        lo == Range(SliceIndices(Some(start % max_size), Some(stop % max_size),
                                 sl.step, n))
        hi == Range(SliceIndices(Some((start % max_size) + max_size),
                                 Some((stop % max_size) + max_size), sl.step, n))
    IN IF StepIsZero(sl.step)
       THEN [npa |-> npa, stored |-> {}, err |-> "ValueError"]
       ELSE [npa |-> Store(npa, lo \cup hi, v), stored |-> lo \cup hi, err |-> ""]

\* the loop of the list branch (lines 115-130): an integer item is stored
\* at once; a slice item evaluates indexs.start on the list itself, which
\* raises AttributeError; any other item is passed over.
RECURSIVE WriteItems(_, _, _, _, _)
WriteItems(npa, stored, items, k, v) ==
    IF k > Len(items) THEN [npa |-> npa, stored |-> stored, err |-> ""]
    ELSE LET it == items[k] IN
         IF it.kind = "int"
         THEN IF max_size = 0
              THEN [npa |-> npa, stored |-> stored, err |-> "ZeroDivisionError"]
              ELSE LET w == WriteInt(npa, it.i, v)
                   IN WriteItems(w.npa, stored \cup w.stored, items, k + 1, v)
         ELSE IF it.kind = "slice"
         THEN [npa |-> npa, stored |-> stored, err |-> "AttributeError"]
         ELSE WriteItems(npa, stored, items, k + 1, v)

__setitem__(indexs, v) ==
    CASE indexs.kind = "list"  -> WriteItems(_npa, {}, indexs.items, 1, v)
      [] indexs.kind = "int"   ->
            IF max_size = 0
            THEN [npa |-> _npa, stored |-> {}, err |-> "ZeroDivisionError"]
            ELSE WriteInt(_npa, indexs.i, v)
      [] indexs.kind = "slice" ->
            IF max_size = 0
            THEN [npa |-> _npa, stored |-> {}, err |-> "ZeroDivisionError"]
            ELSE WriteSlice(_npa, indexs, v)
      [] OTHER                 -> [npa |-> _npa, stored |-> {}, err |-> "TypeError"]

\* ---------------------------------------------------------------- append
\* variant: the cursor is advanced before the two stores
append_preincrement(element) ==
    IF max_size = 0
    THEN /\ last' = Call("append", "ZeroDivisionError")
         /\ UNCHANGED <<_npa, _index>>
    ELSE IF ~Convert(element).ok
    THEN /\ last' = Call("append", "ValueError")
         /\ _index' = _index + 1
         /\ UNCHANGED _npa
    ELSE LET i == _index + 1
             e == Convert(element).v IN
         /\ _npa' = [_npa EXCEPT ![i % max_size] = e,
                                 ![(i % max_size) + max_size] = e]
         /\ _index' = _index + 1
         /\ last' = Call("append", "")

\* variant: the cursor is advanced (line 81) before the stores are tried
append_advancefirst(element) ==
    IF max_size = 0
    THEN /\ last' = Call("append", "ZeroDivisionError")
         /\ UNCHANGED <<_npa, _index>>
    ELSE IF ~Convert(element).ok
    THEN /\ last' = Call("append", "ValueError")
         /\ _index' = _index + 1
         /\ UNCHANGED _npa
    ELSE LET i == _index
             e == Convert(element).v IN
         /\ _npa' = [_npa EXCEPT ![i % max_size] = e,
                                 ![(i % max_size) + max_size] = e]
         /\ _index' = _index + 1
         /\ last' = Call("append", "")

\* variant: the second, mirrored store (line 80) is missing
append_nomirror(element) ==
    IF max_size = 0
    THEN /\ last' = Call("append", "ZeroDivisionError")
         /\ UNCHANGED <<_npa, _index>>
    ELSE IF ~Convert(element).ok
    THEN /\ last' = Call("append", "ValueError")
         /\ UNCHANGED <<_npa, _index>>
    ELSE LET i == _index
             e == Convert(element).v IN
         /\ _npa' = [_npa EXCEPT ![i % max_size] = e]
         /\ _index' = _index + 1
         /\ last' = Call("append", "")

\* i % self.max_size is evaluated first (ZeroDivisionError when max_size is
\* 0); then the first store converts element and raises ValueError when it
\* cannot, before anything is written or the cursor advanced.
append(element) ==
    IF max_size = 0
    THEN /\ last' = Call("append", "ZeroDivisionError")
         /\ UNCHANGED <<_npa, _index>>
    ELSE IF ~Convert(element).ok
    THEN /\ last' = Call("append", "ValueError")
         /\ UNCHANGED <<_npa, _index>>
    ELSE LET i == _index
             e == Convert(element).v IN
         /\ _npa' = [_npa EXCEPT ![i % max_size] = e,
                                 ![(i % max_size) + max_size] = e]
         /\ _index' = _index + 1
         /\ last' = Call("append", "")

\* ----------------------------------------------------------------- clear
clear ==
    /\ _index' = 0
    /\ last' = Call("clear", "")
    /\ UNCHANGED _npa

\* ------------------------------------------------------ selector inputs
Offsets == {None} \cup {Some(n) : n \in (-1) .. MaxCap}
IntSels == {IntSel(i) : i \in (-1) .. MaxCap}
SliceSels == {SliceSel(a, b, None) : a \in {None, Some(-1), Some(0), Some(1)}, b \in Offsets}
             \cup {SliceSel(None, None, Some(-1)), SliceSel(None, None, Some(0))}
Items == {IntSel(0), IntSel(1), SliceSel(None, Some(1), None), OtherSel}
ListSels == {ListSel(<<a>>) : a \in Items} \cup {ListSel(<<a, b>>) : a \in Items, b \in Items}
Selectors == IntSels \cup SliceSels \cup ListSels \cup {OtherSel}

\* ---------------------------------------------------------------- actions
\* History variables.  count is the number of successful appends since
\* construction or the last clear and hist their values in order.  A
\* __setitem__ that stores into a slot of the current window (slots
\* 0..min(count, max_size)-1) makes the window differ from what was
\* appended: intact becomes FALSE and hist is dropped until the next clear.
\* touched is the set of slots s < max_size stored into since construction.
Slot(p) == IF max_size > 0 THEN p % max_size ELSE p

WindowSlots == 0 .. (IF count < max_size THEN count ELSE max_size) - 1

AppendOp ==
    /\ alive
    /\ _index < MaxIndex
    /\ \E element \in Elements :
          /\ append(element)
          /\ IF max_size = 0 \/ ~Convert(element).ok
             THEN UNCHANGED <<count, hist, touched>>
             ELSE /\ count' = count + 1
                  /\ hist' = IF intact THEN Append(hist, Convert(element).v) ELSE hist
                  /\ touched' = touched \cup {_index % max_size}
    /\ UNCHANGED <<alive, max_size, intact, held>>

Clear ==
    /\ alive
    /\ clear
    /\ count' = 0
    /\ hist' = <<>>
    /\ intact' = TRUE
    /\ UNCHANGED <<alive, max_size, touched, held>>

\* buffer[indexs] = v for some selector of the set S
SetItemOver(S) ==
    /\ alive
    /\ \E w \in {__setitem__(indexs, v) : indexs \in S, v \in Values} :
          LET slots == {Slot(p) : p \in w.stored} IN
          /\ _npa' = w.npa
          /\ last' = Call("__setitem__", w.err)
          /\ touched' = touched \cup slots
          /\ intact' = (intact /\ slots \cap WindowSlots = {})
          /\ hist' = IF intact' THEN hist ELSE <<>>
    /\ UNCHANGED <<alive, max_size, _index, count, held>>

SetItem == SetItemOver(Selectors)

GetItem ==
    /\ alive
    /\ \E r \in {__getitem__(indexs) : indexs \in Selectors} :
          last' = Call("__getitem__", r.err)
    /\ UNCHANGED <<alive, max_size, _npa, _index, count, hist, intact, touched, held>>

GetAttr ==
    /\ alive
    /\ \E r \in {__getattr__(a) : a \in Reductions} :
          last' = Call("__getattr__", r.err)
    /\ UNCHANGED <<alive, max_size, _npa, _index, count, hist, intact, touched, held>>

GetElements ==
    /\ alive
    /\ last' = IF max_size = 0
               THEN Call("getElements", "ZeroDivisionError")
               ELSE Call("getElements", "")
    /\ UNCHANGED <<alive, max_size, _npa, _index, count, hist, intact, touched, held>>

IsFull ==
    /\ alive
    /\ last' = Call("isFull", "")
    /\ UNCHANGED <<alive, max_size, _npa, _index, count, hist, intact, touched, held>>

Len_ ==
    /\ alive
    /\ last' = Call("__len__", "")
    /\ UNCHANGED <<alive, max_size, _npa, _index, count, hist, intact, touched, held>>

Next ==
    \/ AppendOp
    \/ Clear
    \/ SetItem
    \/ GetItem
    \/ GetAttr
    \/ GetElements
    \/ IsFull
    \/ Len_

Spec == Init /\ [][Next]_vars

\* A caller that keeps the array __getitem__ returned while the buffer is
\* appended to, cleared and written.
KeptSels ==
    {SliceSel(None, Some(1), None),
     ListSel(<<IntSel(0), SliceSel(None, Some(1), None)>>),
     ListSel(<<IntSel(1), IntSel(0)>>)}

GetItemKeep ==
    /\ alive
    /\ \E indexs \in KeptSels :
          LET r == __getitem__(indexs)
              a == getitemView(indexs) IN
          /\ last' = Call("__getitem__", r.err)
          /\ held' = IF r.err = ""
                     THEN [sel |-> indexs, ret |-> r.ret, view |-> a.view, pos |-> a.pos]
                     ELSE held
    /\ UNCHANGED <<alive, max_size, _npa, _index, count, hist, intact, touched>>

SetItemKeep == SetItemOver({IntSel(0), IntSel(1), SliceSel(None, Some(1), None)})

NextKeep ==
    \/ AppendOp
    \/ Clear
    \/ SetItemKeep
    \/ GetItemKeep

SpecKeep == Init /\ [][NextKeep]_vars

\* the present content of the array the caller holds
Content(h) == IF h.view THEN [k \in 1 .. Len(h.pos) |-> _npa[h.pos[k]]] ELSE h.ret

TypeOK ==
    /\ alive \in BOOLEAN
    /\ max_size \in 0 .. MaxCap
    /\ _index \in 0 .. MaxIndex
    /\ DOMAIN _npa = 0 .. (2 * max_size - 1)
    /\ \A p \in DOMAIN _npa : _npa[p] \in Values

\* ------------------------------------------------------------------ claims
Live == alive /\ max_size > 0

LastN(s, k) == SubSeq(s, Len(s) - k + 1, Len(s))

\* the values appended since the last clear that are still in the buffer,
\* oldest first (meaningful while intact)
Window == LastN(hist, Min2(count, max_size))

Ok(ret) == [ret |-> ret, err |-> ""]

\* C1: after every append len() is min(N, max_size), N the number of appends
\* since construction or the last clear, so it never exceeds max_size; and
\* no call other than append and clear changes len().
C1_Length ==
    /\ [](Live => __len__ = Min2(count, max_size) /\ __len__ <= max_size)
    /\ [][last'.op \notin {"append", "clear"} => __len__' = __len__]_vars

C1_Witness ==
    /\ Live
    /\ last.op = "append"
    /\ count > max_size
    /\ __len__ = max_size

\* C2: the first len() elements of getElements() are the last min(N, max_size)
\* appended values, oldest first, for every N (also 0 < N < max_size).
C2_TrimmedElements ==
    (Live /\ intact) => SubSeq(getElements, 1, __len__) = Window

\* C3: for every i in 0..len()-1, buffer[i] is the i-th oldest value of the
\* window, also before the buffer is full.
C3_ReadIsLogical ==
    (Live /\ intact) =>
        \A i \in 0 .. __len__ - 1 : __getitem__(IntSel(i)) = Ok(<<Window[i + 1]>>)

\* C4: once max_size or more values were appended, getElements() is exactly
\* the last max_size appended values in insertion order, wherever the
\* physical wrap point is, and buffer[0:k] (or buffer[:k]) is the k oldest.
C4_FullWindow ==
    (Live /\ intact /\ count >= max_size) =>
        /\ __len__ = max_size
        /\ isFull
        /\ getElements = LastN(hist, max_size)
        /\ \A k \in 0 .. max_size :
              /\ __getitem__(SliceSel(Some(0), Some(k), None))
                    = Ok(SubSeq(LastN(hist, max_size), 1, k))
              /\ __getitem__(SliceSel(None, Some(k), None))
                    = Ok(SubSeq(LastN(hist, max_size), 1, k))

C4_Witness ==
    /\ Live /\ intact
    /\ count > max_size
    /\ _index % max_size # 0
    /\ last.op = "append"
    /\ \E i, j \in 1 .. max_size : getElements[i] # getElements[j]

\* C5: a read or write with a negative index or a negative range offset
\* raises IndexError, and the write leaves the store unchanged.
NegativeSels ==
    {sel \in IntSels : sel.i < 0}
    \cup {sel \in SliceSels : \/ (sel.start # None /\ sel.start[1] < 0)
                              \/ (sel.stop # None /\ sel.stop[1] < 0)}

C5_NegativeFails ==
    Live => \A sel \in NegativeSels :
                /\ __getitem__(sel).err = "IndexError"
                /\ \A v \in Values :
                      /\ __setitem__(sel, v).err = "IndexError"
                      /\ __setitem__(sel, v).npa = _npa

\* C6: min, max, sum, mean and std are computed over exactly the last
\* min(N, max_size) appended values, oldest first, before the buffer is full
\* as well as when it is full and physically wrapped.
C6_ReductionsOverWindow ==
    (Live /\ intact) => \A a \in Reductions : __getattr__(a) = Reduce(a, Window)

C6_Witness ==
    /\ Live /\ intact
    /\ last.op = "__getattr__"
    /\ 0 < count /\ count < max_size
    /\ \E p \in count .. max_size - 1 : _npa[p] # hist[1]

\* C7: clear() sets len() to 0 and leaves the store untouched; after the
\* next append len() is 1 and the appended value is the whole window: it is
\* what buffer[0] returns and the only value a reduction sees.
C7_AppendAfterClear ==
    [][ /\ (last'.op = "clear" => __len__' = 0 /\ _npa' = _npa)
        /\ (last.op = "clear" /\ last'.op = "append" /\ Live) =>
              /\ __len__' = 1
              /\ __getitem__(IntSel(0))' = Ok(<<hist'[1]>>)
              /\ \A a \in Reductions : __getattr__(a)' = Reduce(a, <<hist'[1]>>)
      ]_vars

\* C8: isFull() holds exactly when max_size or more values were appended
\* since the last clear; once true it stays true across every call but
\* clear().
C8_IsFull ==
    /\ [](alive => (isFull <=> count >= max_size))
    /\ [][(isFull /\ ~isFull') => last'.op = "clear"]_vars

C8_Witness ==
    /\ Live
    /\ count > max_size
    /\ isFull
    /\ last.op = "__setitem__"

\* C9 (as stated): _npa[s] = _npa[s + max_size] for every slot s below
\* max_size in every reachable state, untouched slots included.
C9_AllSlotsMirrored ==
    alive => \A s \in 0 .. max_size - 1 : _npa[s] = _npa[s + max_size]

\* C9 (amended): _npa[s] = _npa[s + max_size] for every slot s that an
\* append or an indexed or range write has stored into since construction.
C9_TouchedSlotsMirrored ==
    alive => \A s \in touched : _npa[s] = _npa[s + max_size]

C9_Witness ==
    /\ Live
    /\ last.op \in {"append", "__setitem__"}
    /\ touched # {}
    /\ \E s \in (0 .. max_size - 1) \ touched : _npa[s] # _npa[s + max_size]

\* C10: a buffer with max_size <= 0 is never constructed, and no later call
\* fails because of such a capacity.
C10_NonPositiveCapacityRejected ==
    /\ alive => max_size > 0
    /\ last.err # "ZeroDivisionError"

\* C11: buffer[i] = v for an integer i >= 0 stores v at slot
\* (i + _index) % max_size and at that slot + max_size and changes nothing
\* else: no other slot, not the cursor, not len(); also when i >= len().
C11_IndexedWrite ==
    /\ [](Live => \A i \in 0 .. MaxCap, v \in Values :
              LET w == __setitem__(IntSel(i), v)
                  p == (i + _index) % max_size
              IN /\ w.err = ""
                 /\ w.npa[p] = v
                 /\ w.npa[p + max_size] = v
                 /\ \A q \in DOMAIN _npa \ {p, p + max_size} : w.npa[q] = _npa[q])
    /\ [][last'.op = "__setitem__" =>
              /\ _index' = _index
              /\ __len__' = __len__]_vars

C11_Witness ==
    /\ Live
    /\ last = Call("__setitem__", "")
    /\ ~isFull
    /\ \E s \in touched : s >= __len__ /\ _npa[s] = _npa[s + max_size]

\* C12: the cursor changes only in an append, by exactly +1 after the value
\* was stored at slot _index % max_size and its mirror, and in a clear, to
\* 0; no other call changes it, max_size never changes and the store has
\* 2 * max_size slots in every state.
C12_CursorFrame ==
    /\ [](alive => DOMAIN _npa = 0 .. (2 * max_size - 1))
    /\ [][ /\ max_size' = max_size
           /\ (_index' # _index) => last'.op \in {"append", "clear"}
           /\ (last'.op = "clear") => _index' = 0
           /\ (last'.op = "append" /\ last'.err = "") =>
                 LET s == _index % max_size IN
                 /\ _index' = _index + 1
                 /\ _npa'[s] = _npa'[s + max_size]
                 /\ intact => _npa'[s] = hist'[Len(hist')]
                 /\ \A q \in DOMAIN _npa \ {s, s + max_size} : _npa'[q] = _npa[q]
         ]_vars

C12_Witness ==
    /\ Live
    /\ last = Call("append", "")
    /\ _index > max_size
    /\ _index % max_size # 0

\* C13: an append whose value cannot be converted to the element type
\* raises at once and atomically: neither mirrored slot is written and the
\* cursor is not advanced, so the state after the call is the state before.
C13_FailedAppendAtomic ==
    [][ /\ \A element \in Elements :
              (Live /\ ~Convert(element).ok /\ append(element)) =>
                  last'.err = "ValueError"
        /\ (last'.op = "append" /\ last'.err # "") =>
              /\ _npa' = _npa
              /\ _index' = _index
              /\ __len__' = __len__
              /\ Live => getElements' = getElements
      ]_vars

C13_Witness ==
    /\ Live
    /\ last = Call("append", "ValueError")
    /\ count > 0

\* C14: a read with a list of selectors resolves each selector on its own
\* against the same view and returns the results joined in request order
\* as a new array, which no later append or write changes; the result of a
\* single range read is a view of the store.
RECURSIVE JoinReads(_, _)
JoinReads(items, k) ==
    IF k > Len(items) THEN <<>>
    ELSE __getitem__(items[k]).ret \o JoinReads(items, k + 1)

C14_ListReadIsCopy ==
    /\ held.sel.kind = "list" =>
          /\ ~held.view
          /\ Content(held) = held.ret
          /\ last = Call("__getitem__", "") =>
                held.ret = JoinReads(held.sel.items, 1)
    /\ held.sel.kind = "slice" =>
          /\ held.view
          /\ Len(held.pos) = Len(held.ret)
          /\ last = Call("__getitem__", "") => Content(held) = held.ret

C14_Witness ==
    /\ Live
    /\ held.sel.kind = "list"
    /\ last \in {Call("append", ""), Call("__setitem__", "")}
    /\ __getitem__(held.sel).err = ""
    /\ __getitem__(held.sel).ret # held.ret
    /\ Content(held) = held.ret

\* a kept range read shows a value stored after it was returned
C14_ViewFollowsStore ==
    /\ Live
    /\ held.sel.kind = "slice"
    /\ Content(held) # held.ret

\* C15: a read or write whose selector has an unsupported shape raises
\* (stated here for any exception type) and leaves the store unchanged,
\* at top level as well as for an unsupported element of a list and, in a
\* write, a range element of a list: nothing is skipped silently and no
\* partial write is left behind.
HasItem(sel, kinds) ==
    sel.kind = "list" /\ \E k \in 1 .. Len(sel.items) : sel.items[k].kind \in kinds

C15_UnsupportedFails ==
    Live =>
        /\ \A sel \in {OtherSel} \cup {l \in ListSels : HasItem(l, {"other"})} :
              __getitem__(sel).err # ""
        /\ \A sel \in {OtherSel} \cup {l \in ListSels : HasItem(l, {"other", "slice"})} :
              \A v \in Values :
                 /\ __setitem__(sel, v).err # ""
                 /\ __setitem__(sel, v).npa = _npa

\* C16 (as stated): for every logical index i below min(_index, max_size),
\* _npa[i % max_size] and its mirror are equal and hold the i-th oldest
\* element of the window, also when the buffer is full and wrapped.
C16_LogicalIndexIsSlot ==
    (Live /\ intact) =>
        \A i \in 0 .. __len__ - 1 :
            /\ _npa[i % max_size] = _npa[(i % max_size) + max_size]
            /\ _npa[i % max_size] = Window[i + 1]

\* C16 (amended): for every logical index i below min(_index, max_size),
\* the slot p = (_index - len() + i) % max_size and its mirror are equal and
\* hold the i-th oldest element of the window.
C16_WindowSlotsMirrored ==
    Live =>
        \A i \in 0 .. __len__ - 1 :
            LET p == (_index - __len__ + i) % max_size IN
            /\ _npa[p] = _npa[p + max_size]
            /\ intact => _npa[p] = Window[i + 1]

C16_Witness ==
    /\ Live /\ intact
    /\ last = Call("append", "")
    /\ count > max_size
    /\ _index % max_size # 0
    /\ _npa[0] # Window[1]

\* C17: buffer[start:stop] = v with 0 <= start < stop <= max_size stores v
\* at slot (i + _index) % max_size and its mirror for every i in
\* start..stop-1, whatever the cursor (also across the wrap point and for
\* stop = max_size), and a missing stop does not make the write a no-op.
C17_RangeWrite ==
    Live =>
        \A start \in 0 .. max_size - 1, v \in Values :
            /\ \A stop \in start + 1 .. max_size :
                  LET w == __setitem__(SliceSel(Some(start), Some(stop), None), v)
                      lo == {(i + _index) % max_size : i \in start .. stop - 1}
                  IN /\ w.err = ""
                     /\ w.npa = Store(_npa, lo \cup {p + max_size : p \in lo}, v)
            /\ __setitem__(SliceSel(Some(start), None, None), v).stored # {}

\* C18: buffer[i] = v with 0 <= i < len() replaces exactly the i-th oldest
\* element of the window the reductions see and leaves the others, full
\* buffer or not.
C18_WriteReplacesWindowElement ==
    [][\A i \in 0 .. __len__ - 1, v \in Values :
          (/\ Live
           /\ last' = Call("__setitem__", "")
           /\ _npa' = __setitem__(IntSel(i), v).npa)
          => getattrArray' = [getattrArray EXCEPT ![i + 1] = v]
      ]_vars

\* C19: for every cursor and every i in 0..max_size-1, buffer[i] = v
\* followed by buffer[i] returns v, and buffer[j] for every other j in
\* 0..max_size-1 returns what it returned before the write.
C19_WriteReadRoundTrip ==
    [][\A i \in 0 .. max_size - 1, v \in Values :
          (/\ Live
           /\ last' = Call("__setitem__", "")
           /\ _npa' = __setitem__(IntSel(i), v).npa)
          => /\ __getitem__(IntSel(i))' = Ok(<<v>>)
             /\ \A j \in (0 .. max_size - 1) \ {i} :
                   __getitem__(IntSel(j))' = __getitem__(IntSel(j))
      ]_vars

C19_Witness ==
    /\ Live
    /\ last = Call("__setitem__", "")
    /\ _index % max_size # 0
    /\ ~intact

====
